---------------------------- MODULE Spec2Model ----------------------------
(***************************************************************************)
(* A model of src/main.py: BookingHotelScraper (fetch_page,                *)
(* extract_hotel_data, scrape_hotels, save_to_csv), the command line entry *)
(* point main() and the script's __main__ block.                           *)
(*                                                                         *)
(* Text is a sequence of characters.  A character is a one-character       *)
(* string; a run of ordinary characters (no whitespace at its ends, no     *)
(* comma, quote or line break) is written as one string, e.g. "N/A".       *)
(***************************************************************************)
EXTENDS Integers, Sequences, FiniteSets

VARIABLES
    entry,        \* "main" (main(), line 186) or "script" (__main__ block, line 219)
    args_format,  \* args.format (line 191)
    args_output,  \* args.output (line 190)
    pc,           \* position of the run
    gets,         \* number of session.get calls issued (line 55)
    response,     \* outcome of session.get (line 55)
    soup,         \* scrape_hotels' soup (line 124)
    hotel_divs,   \* scrape_hotels' hotel_divs (line 129)
    i,            \* 1-based index of the next listing of the loop (line 133)
    hotel_div,    \* the loop's current listing / extract_hotel_data's argument
    hotel,        \* the value extract_hotel_data returned (line 134)
    hotels,       \* the list of records (line 132)
    saves,        \* number of save_to_csv calls
    filename,     \* the filename argument of the save_to_csv call (line 144)
    fault,        \* what the file system did to the last save_to_csv call
    fs,           \* the file system: file name -> content or NoFile
    csv_file,     \* the value save_to_csv returned (line 208)
    stdout,       \* the lines printed (lines 209, 212)
    log,          \* the logging calls made, in order
    exit          \* "running", "returned" or "raised" (exception at the process boundary)

vars == <<entry, args_format, args_output, pc, gets, response, soup, hotel_divs,
          i, hotel_div, hotel, hotels, saves, filename, fault, fs, csv_file, stdout, log,
          exit>>

-----------------------------------------------------------------------------
(* Bounds of the model *)

\* the longest document, in top-level elements
MaxElems == 2
\* the longest record list handed to save_to_csv in the writer specification
MaxRecords == 2
\* the number of save_to_csv calls in the writer specification
MaxSaves == 2

-----------------------------------------------------------------------------
(* Values *)

\* Python's None; a variable not assigned yet; a file that does not exist.
\* Records, so that each compares with the records below.
None == [none |-> TRUE]
Unset == [unset |-> TRUE]
NoFile == [nofile |-> TRUE]

\* a str where None may stand instead (args.output, filename)
Str(s) == [str |-> s]

\* a BeautifulSoup object over the tree doc
Soup(doc) == [tree |-> doc]

\* an existing file holding text
File(text) == [text |-> text]

SP == " "
LF == "\n"
CR == "\r"
COMMA == ","
QUOTE == "\""

\* the characters str.strip() removes (line 82)
Whitespace == {SP, LF, CR}

\* the sentinel of lines 82, 86, 90, 94, 98
NA == <<"N/A">>

\* the fields of Hotel, in declaration order (lines 14-18)
Fields == <<"name", "location", "review_score", "review_count", "price">>

FieldSet == {Fields[k] : k \in 1..Len(Fields)}

\* the structural marker of each field: tag and class string (lines 81-97)
Marker(f) ==
    CASE f = "name"         -> [tag |-> "div",  class |-> "b87c397a13 a3e0b4ffd1"]
      [] f = "location"     -> [tag |-> "div",  class |-> "d823fbbeed f9b3563dd4"]
      [] f = "review_score" -> [tag |-> "div",  class |-> "f63b14ab7a f546354b44 becbee2f63"]
      [] f = "review_count" -> [tag |-> "div",  class |-> "fff1944c52 fb14de7f14 eaa8455879"]
      [] f = "price"        -> [tag |-> "span", class |-> "b87c397a13 f2f358d1de ab607752a2"]

-----------------------------------------------------------------------------
(* Text *)

RECURSIVE LStrip(_)
LStrip(s) ==
    IF s = <<>> THEN s
    ELSE IF Head(s) \in Whitespace THEN LStrip(Tail(s)) ELSE s

RECURSIVE RStrip(_)
RStrip(s) ==
    IF s = <<>> THEN s
    ELSE IF s[Len(s)] \in Whitespace THEN RStrip(SubSeq(s, 1, Len(s) - 1)) ELSE s

\* a mutant of Strip: the text is kept as found
StripNothing(s) == s

\* str.strip() (lines 82-98)
Strip(s) == RStrip(LStrip(s))

-----------------------------------------------------------------------------
(* The document tree: a listing is an element with children; a child is    *)
(* [tag, class, text].                                                     *)

RECURSIVE FindFrom(_, _, _)
FindFrom(children, m, k) ==
    IF k > Len(children) THEN None
    ELSE IF children[k].tag = m.tag /\ children[k].class = m.class THEN children[k]
    ELSE FindFrom(children, m, k + 1)

\* hotel_div.find(tag, class_=...): the first match in document order, or None
Find(div, m) == FindFrom(div.children, m, 1)

\* "elem.text.strip() if elem else 'N/A'" (lines 82, 86, 90, 94, 98)
FieldText(elem) == IF elem # None THEN Strip(elem.text) ELSE NA

\* a mutant of extract_hotel_data: a listing with a field not found gives no record
extract_drop_incomplete(div) ==
    IF div.raises \/ \E f \in FieldSet : Find(div, Marker(f)) = None THEN None
    ELSE [f \in FieldSet |-> FieldText(Find(div, Marker(f)))]

\* extract_hotel_data (lines 69-112): the record, or None when a lookup raised
extract_hotel_data(div) ==
    IF div.raises THEN None
    ELSE [f \in FieldSet |-> FieldText(Find(div, Marker(f)))]


-----------------------------------------------------------------------------
(* Listings the model feeds to the program *)

\* a lookup target and something to find in it
Child(tag, class, text) == [tag |-> tag, class |-> class, text |-> text]

\* texts of an element: plain; padded, with a comma, a quote and a line break
\* inside; whitespace only
TextPlain == <<"a">>
TextPadded == <<SP, "b", COMMA, QUOTE, LF, "c", SP, LF>>
TextBlank == <<LF, SP>>

\* the tag a marker does not ask for
OtherTag(tag) == IF tag = "div" THEN "span" ELSE "div"

\* what a listing holds for field f: nothing; an element of the marker's class
\* under another tag; one element with a text; two matching elements
Shapes == {"absent", "decoy", "plain", "padded", "blank", "twice"}

ChildrenFor(f, shape) ==
    LET m == Marker(f) IN
    CASE shape = "absent" -> <<>>
      [] shape = "decoy"  -> <<Child(OtherTag(m.tag), m.class, TextPlain)>>
      [] shape = "plain"  -> <<Child(m.tag, m.class, TextPlain)>>
      [] shape = "padded" -> <<Child(m.tag, m.class, TextPadded)>>
      [] shape = "blank"  -> <<Child(m.tag, m.class, TextBlank)>>
      [] shape = "twice"  -> <<Child(m.tag, m.class, TextPadded),
                               Child(m.tag, m.class, TextPlain)>>

\* an element of the document: its tag, its role attribute, its children, and
\* whether a lookup on it raises (the case the handler of line 110 is for)
Element(tag, role, shape, raises) ==
    [tag |-> tag, role |-> role, raises |-> raises,
     children |-> ChildrenFor(Fields[1], shape[Fields[1]])
                  \o ChildrenFor(Fields[2], shape[Fields[2]])
                  \o ChildrenFor(Fields[3], shape[Fields[3]])
                  \o ChildrenFor(Fields[4], shape[Fields[4]])
                  \o ChildrenFor(Fields[5], shape[Fields[5]])]

\* every listing extract_hotel_data is applied to on its own
ExtractInputs ==
    {Element("div", "listitem", shape, r) : shape \in [FieldSet -> Shapes], r \in BOOLEAN}

AllShape(s) == [f \in FieldSet |-> s]

\* the elements documents are built from: four listings that give a record (two
\* complete ones with different texts, one without a review count, one with
\* nothing), a listing whose lookup raises, and a div that is no listing
SampleElems ==
    { Element("div", "listitem", AllShape("plain"), FALSE),
      Element("div", "listitem", AllShape("padded"), FALSE),
      Element("div", "listitem", [AllShape("plain") EXCEPT !["review_count"] = "absent"], FALSE),
      Element("div", "listitem", AllShape("absent"), FALSE),
      Element("div", "listitem", AllShape("plain"), TRUE),
      Element("div", "", AllShape("plain"), FALSE) }

\* the documents a 200 response can carry
Documents == UNION {[1..n -> SampleElems] : n \in 0..MaxElems}

-----------------------------------------------------------------------------
(* Logging and printing *)

LogLine(level, msg) == [level |-> level, msg |-> msg]

-----------------------------------------------------------------------------
(* fetch_page *)

\* the HTTP status codes the model sends back
Statuses == {200, 204, 304, 404, 500}

\* Response.raise_for_status (line 56): HTTPError for 4xx and 5xx
RaisesForStatus(status) == 400 <= status /\ status < 600

\* what session.get and the parser can do: a transport error, a timeout, or a
\* response; the body is read only for a 200 (line 60), where the parser may raise
Responses ==
    { [kind |-> k, status |-> 0, parser_ok |-> TRUE, body |-> <<>>] :
          k \in {"ConnectionError", "Timeout"} }
    \cup { [kind |-> "response", status |-> s, parser_ok |-> TRUE, body |-> <<>>] :
          s \in Statuses \ {200} }
    \cup { [kind |-> "response", status |-> 200, parser_ok |-> FALSE, body |-> <<>>] }
    \cup { [kind |-> "response", status |-> 200, parser_ok |-> TRUE, body |-> d] :
          d \in Documents }

\* a mutant of fetch_page: any response that did not raise is parsed
fetch_page_any_status(r) ==
    IF r.kind # "response" \/ RaisesForStatus(r.status) \/ ~r.parser_ok
    THEN [soup |-> None, log |-> <<LogLine("error", "Unexpected error")>>]
    ELSE [soup |-> Soup(r.body), log |-> <<LogLine("info", "Successfully fetched page")>>]

\* fetch_page (lines 53-67) on the outcome r of session.get: the tree or None,
\* and the lines logged after "Fetching"
fetch_page(r) ==
    IF r.kind # "response" \/ RaisesForStatus(r.status)
    THEN [soup |-> None, log |-> <<LogLine("error", "Unexpected error")>>]
    ELSE IF r.status = 200
    THEN IF r.parser_ok
         THEN [soup |-> Soup(r.body), log |-> <<LogLine("info", "Successfully fetched page")>>]
         ELSE [soup |-> None,
               log |-> <<LogLine("info", "Successfully fetched page"),
                         LogLine("error", "Unexpected error")>>]
    ELSE [soup |-> None, log |-> <<LogLine("warning", "Unexpected status code")>>]

-----------------------------------------------------------------------------
(* scrape_hotels *)

IsListing(e) == e.tag = "div" /\ e.role = "listitem"

\* soup.find_all('div', role="listitem") (line 129): the listings, in document order
find_all(doc) == SelectSeq(doc.tree, IsListing)

\* a mutant of AppendHotel: the newest record goes first
PrependHotel(hs, h) == <<h>> \o hs

\* hotels.append(hotel) (line 136)
AppendHotel(hs, h) == Append(hs, h)

-----------------------------------------------------------------------------
(* csv.writer with the default dialect, as save_to_csv uses it (line 162) *)

\* the characters that make csv.writer quote a field: delimiter, quote
\* character and the characters of the line terminator
CsvSpecial == {COMMA, QUOTE, CR, LF}

NeedsQuote(cell) == \E k \in 1..Len(cell) : cell[k] \in CsvSpecial

\* doublequote: every quote character inside a quoted field is written twice
RECURSIVE DoubleQuotes(_)
DoubleQuotes(cell) ==
    IF cell = <<>> THEN <<>>
    ELSE (IF Head(cell) = QUOTE THEN <<QUOTE, QUOTE>> ELSE <<Head(cell)>>)
         \o DoubleQuotes(Tail(cell))

\* one field as written (QUOTE_MINIMAL)
CsvField(cell) ==
    IF NeedsQuote(cell) THEN <<QUOTE>> \o DoubleQuotes(cell) \o <<QUOTE>> ELSE cell

RECURSIVE JoinFields(_)
JoinFields(cells) ==
    IF cells = <<>> THEN <<>>
    ELSE IF Len(cells) = 1 THEN CsvField(cells[1])
    ELSE CsvField(cells[1]) \o <<COMMA>> \o JoinFields(Tail(cells))

\* writer.writerow(cells): the fields, comma separated, and "\r\n"
writerow(cells) == JoinFields(cells) \o <<CR, LF>>

\* the header row of line 165
HeaderCells ==
    << <<"Hotel Name">>, <<"Location">>, <<"Review Score">>,
       <<"Number of Reviews">>, <<"Price">> >>

\* the row of one hotel (lines 169-175)
HotelCells(h) == [k \in 1..Len(Fields) |-> h[Fields[k]]]

\* the rows of hotels 1..n, as written one after the other (lines 168-175)
RECURSIVE HotelRows(_, _)
HotelRows(hs, n) ==
    IF n = 0 THEN <<>> ELSE HotelRows(hs, n - 1) \o writerow(HotelCells(hs[n]))

-----------------------------------------------------------------------------
(* save_to_csv *)

\* the default of line 156
DefaultFilename == Str(<<"booking_hotels.csv">>)

\* "if not filename" (line 155): None and the empty string are false
Falsy(x) == x = None \/ x = Str(<<>>)

\* the file names the runs of the model can write
FileNames == {DefaultFilename, Str(<<"out", ".csv">>)}

\* what the file system does to one save_to_csv call: nothing, a failing open,
\* or a failing write of row `row` (0: the header), after which the rows
\* written before it are in the file
Faults(hs) ==
    { [kind |-> "none", row |-> 0], [kind |-> "open", row |-> 0] }
    \cup { [kind |-> "write", row |-> k] : k \in 0..Len(hs) }

\* a mutant of OpenForWriting: the file is opened for appending
OpenForAppending(file) == IF file = NoFile THEN <<>> ELSE file.text

\* open(filename, 'w', ...) (line 161): the file is created or truncated
OpenForWriting(file) == <<>>

\* a mutant of save_to_csv: a failure is logged and the file name returned
save_to_csv_swallow(hs, fname, files, flt) ==
    LET name == IF Falsy(fname) THEN DefaultFilename ELSE fname
        rows == IF flt.kind = "write" THEN flt.row - 1 ELSE Len(hs)
        text == IF flt.kind = "write" /\ flt.row = 0 THEN <<>>
                ELSE writerow(HeaderCells) \o HotelRows(hs, rows)
    IN  IF flt.kind = "open"
        THEN [fs |-> files, raised |-> FALSE, ret |-> name,
              log |-> <<LogLine("error", "Failed to save CSV")>>]
        ELSE [fs |-> [files EXCEPT ![name] = File(OpenForWriting(files[name]) \o text)],
              raised |-> FALSE, ret |-> name,
              log |-> IF flt.kind = "write"
                      THEN <<LogLine("error", "Failed to save CSV")>>
                      ELSE <<LogLine("info", "Data saved to")>>]

\* save_to_csv (lines 144-182) on the file system `files` under fault `flt`:
\* the file system after it, whether it raised, what it returned and logged
save_to_csv(hs, fname, files, flt) ==
    LET name == IF Falsy(fname) THEN DefaultFilename ELSE fname
        rows == IF flt.kind = "write" THEN flt.row - 1 ELSE Len(hs)
        text == IF flt.kind = "write" /\ flt.row = 0 THEN <<>>
                ELSE writerow(HeaderCells) \o HotelRows(hs, rows)
    IN  IF flt.kind = "open"
        THEN [fs |-> files, raised |-> TRUE, ret |-> None,
              log |-> <<LogLine("error", "Failed to save CSV")>>]
        ELSE [fs |-> [files EXCEPT ![name] = File(OpenForWriting(files[name]) \o text)],
              raised |-> flt.kind = "write",
              ret |-> IF flt.kind = "write" THEN None ELSE name,
              log |-> IF flt.kind = "write"
                      THEN <<LogLine("error", "Failed to save CSV")>>
                      ELSE <<LogLine("info", "Data saved to")>>]

-----------------------------------------------------------------------------
(* The run: main() (lines 186-217) and the __main__ block (lines 219-225) *)

\* what an output file may hold before the run: an earlier run's output
OldContent ==
    File(writerow(HeaderCells)
         \o writerow(<< <<"old">>, <<"old">>, <<"old">>, <<"old">>, <<"old">> >>))

\* before the run, either no output file exists or each holds earlier output
InitialFileSystems == {[n \in FileNames |-> c] : c \in {NoFile, OldContent}}

\* the choices of --format (line 191) and the values of --output (line 190)
Formats == {"csv", "json", "both"}
Outputs == {None, Str(<<>>), Str(<<"out">>)}

\* "args.output and f'{args.output}.csv'" (line 208)
OutputArg(o) == IF Falsy(o) THEN o ELSE Str(o.str \o <<".csv">>)

\* the filename argument of the run's save_to_csv call (lines 208, 225)
FilenameArg == IF entry = "main" THEN OutputArg(args_output) ELSE None

\* the file a save_to_csv call with the current filename writes (lines 155-156)
TargetFile == IF Falsy(filename) THEN DefaultFilename ELSE filename

Init ==
    /\ entry \in {"main", "script"}
    /\ IF entry = "main"
       THEN args_format \in Formats /\ args_output \in Outputs
       ELSE args_format = "csv" /\ args_output = None
    /\ pc = "idle"
    /\ gets = 0
    /\ response = Unset
    /\ soup = Unset
    /\ hotel_divs = <<>>
    /\ i = 0
    /\ hotel_div = Unset
    /\ hotel = Unset
    /\ hotels = <<>>
    /\ saves = 0
    /\ filename = Unset
    /\ fault = Unset
    /\ fs \in InitialFileSystems
    /\ csv_file = Unset
    /\ stdout = <<>>
    /\ log = <<>>
    /\ exit = "running"

\* scrape_hotels calls fetch_page, which issues the GET (lines 124, 54-55)
SendRequest ==
    /\ pc = "idle"
    /\ pc' = "fetching"
    /\ gets' = gets + 1
    /\ log' = Append(log, LogLine("info", "Fetching"))
    /\ UNCHANGED <<filename, entry, args_format, args_output, response, soup, hotel_divs, i,
                   hotel_div, hotel, hotels, saves, fault, fs, csv_file, stdout, exit>>

\* a mutant of ReceiveResponse: a failed fetch is tried again
ReceiveResponseRetry ==
    /\ pc = "fetching"
    /\ \E r \in Responses :
         LET res == fetch_page(r) IN
         /\ response' = r
         /\ soup' = res.soup
         /\ log' = log \o res.log
         /\ pc' = IF res.soup = None THEN (IF gets < 2 THEN "idle" ELSE "scraped")
                  ELSE "locating"
    /\ UNCHANGED <<filename, entry, args_format, args_output, gets, hotel_divs, i, hotel_div,
                   hotel, hotels, saves, fault, fs, csv_file, stdout, exit>>

\* fetch_page returns (lines 55-67); without a tree scrape_hotels returns []
\* (lines 125-126)
ReceiveResponse ==
    /\ pc = "fetching"
    /\ \E r \in Responses :
         LET res == fetch_page(r) IN
         /\ response' = r
         /\ soup' = res.soup
         /\ log' = log \o res.log
         /\ pc' = IF res.soup = None THEN "scraped" ELSE "locating"
    /\ UNCHANGED <<filename, entry, args_format, args_output, gets, hotel_divs, i, hotel_div,
                   hotel, hotels, saves, fault, fs, csv_file, stdout, exit>>

\* the listings are located (lines 129-132)
Locate ==
    /\ pc = "locating"
    /\ hotel_divs' = find_all(soup)
    /\ log' = Append(log, LogLine("info", "Found potential hotel listings"))
    /\ hotels' = <<>>
    /\ i' = 1
    /\ pc' = "extracting"
    /\ UNCHANGED <<filename, entry, args_format, args_output, gets, response, soup, hotel_div,
                   hotel, saves, fault, fs, csv_file, stdout, exit>>

\* a mutant of ExtractListing: the loop ends at the first listing that gives no record
ExtractListingAbort ==
    /\ pc = "extracting"
    /\ i <= Len(hotel_divs)
    /\ LET h == extract_hotel_data(hotel_divs[i]) IN
         /\ hotel_div' = hotel_divs[i]
         /\ hotel' = h
         /\ hotels' = IF h # None THEN AppendHotel(hotels, h) ELSE hotels
         /\ log' = IF h # None THEN Append(log, LogLine("debug", "Extracted hotel"))
                   ELSE Append(log, LogLine("warning", "Failed to extract hotel data"))
         /\ i' = IF h # None THEN i + 1 ELSE Len(hotel_divs) + 1
    /\ UNCHANGED <<filename, entry, args_format, args_output, pc, gets, response, soup,
                   hotel_divs, saves, fault, fs, csv_file, stdout, exit>>

\* one pass of the loop (lines 133-137, with the handler of lines 110-112)
ExtractListing ==
    /\ pc = "extracting"
    /\ i <= Len(hotel_divs)
    /\ LET h == extract_hotel_data(hotel_divs[i]) IN
         /\ hotel_div' = hotel_divs[i]
         /\ hotel' = h
         /\ hotels' = IF h # None THEN AppendHotel(hotels, h) ELSE hotels
         /\ log' = IF h # None THEN Append(log, LogLine("debug", "Extracted hotel"))
                   ELSE Append(log, LogLine("warning", "Failed to extract hotel data"))
    /\ i' = i + 1
    /\ UNCHANGED <<filename, entry, args_format, args_output, pc, gets, response, soup,
                   hotel_divs, saves, fault, fs, csv_file, stdout, exit>>

\* the loop is over and scrape_hotels returns hotels (lines 141-142)
ReturnHotels ==
    /\ pc = "extracting"
    /\ i > Len(hotel_divs)
    /\ log' = Append(log, LogLine("info", "Successfully extracted hotels"))
    /\ pc' = "scraped"
    /\ UNCHANGED <<filename, entry, args_format, args_output, gets, response, soup, hotel_divs,
                   i, hotel_div, hotel, hotels, saves, fault, fs, csv_file, stdout, exit>>

\* main() with no hotels: a warning, and return (lines 202-204)
MainNoHotels ==
    /\ entry = "main"
    /\ pc = "scraped"
    /\ hotels = <<>>
    /\ log' = Append(log, LogLine("warning", "No hotels found or scraped"))
    /\ pc' = "done"
    /\ exit' = "returned"
    /\ UNCHANGED <<filename, entry, args_format, args_output, gets, response, soup, hotel_divs,
                   i, hotel_div, hotel, hotels, saves, fault, fs, csv_file, stdout>>

\* main() calls save_to_csv for csv and both (lines 207-208)
MainCallSave ==
    /\ entry = "main"
    /\ pc = "scraped"
    /\ hotels # <<>>
    /\ args_format \in {"csv", "both"}
    /\ saves' = saves + 1
    /\ filename' = FilenameArg
    /\ pc' = "writing"
    /\ UNCHANGED <<entry, args_format, args_output, gets, response, soup, hotel_divs,
                   i, hotel_div, hotel, hotels, fault, fs, csv_file, stdout, log, exit>>

\* main() with any other format: nothing is saved, the summary is printed (line 212)
MainSkipSave ==
    /\ entry = "main"
    /\ pc = "scraped"
    /\ hotels # <<>>
    /\ args_format \notin {"csv", "both"}
    /\ stdout' = Append(stdout, [text |-> "Successfully scraped", arg |-> Len(hotels)])
    /\ pc' = "done"
    /\ exit' = "returned"
    /\ UNCHANGED <<filename, entry, args_format, args_output, gets, response, soup, hotel_divs,
                   i, hotel_div, hotel, hotels, saves, fault, fs, csv_file, log>>

\* the __main__ block calls save_to_csv with whatever was scraped (line 225)
ScriptCallSave ==
    /\ entry = "script"
    /\ pc = "scraped"
    /\ saves' = saves + 1
    /\ filename' = FilenameArg
    /\ pc' = "writing"
    /\ UNCHANGED <<entry, args_format, args_output, gets, response, soup, hotel_divs,
                   i, hotel_div, hotel, hotels, fault, fs, csv_file, stdout, log, exit>>

\* save_to_csv runs; what follows its return or its exception in main()
\* (lines 208-217) and in the __main__ block (line 225)
WriteCsv ==
    /\ pc = "writing"
    /\ \E flt \in Faults(hotels) :
         LET res == save_to_csv(hotels, filename, fs, flt) IN
         /\ fault' = flt
         /\ fs' = res.fs
         /\ IF res.raised
            THEN /\ log' = IF entry = "main"
                           THEN log \o res.log \o <<LogLine("error", "Scraping failed")>>
                           ELSE log \o res.log
                 /\ pc' = "failed"
                 /\ exit' = "raised"
                 /\ UNCHANGED <<csv_file, stdout>>
            ELSE /\ log' = log \o res.log
                 /\ csv_file' = res.ret
                 /\ stdout' = IF entry = "main"
                              THEN stdout
                                   \o <<[text |-> "CSV data saved to:", arg |-> res.ret],
                                        [text |-> "Successfully scraped", arg |-> Len(hotels)]>>
                              ELSE stdout
                 /\ pc' = "done"
                 /\ exit' = "returned"
    /\ UNCHANGED <<filename, entry, args_format, args_output, gets, response, soup, hotel_divs,
                   i, hotel_div, hotel, hotels, saves>>

Next ==
    \/ SendRequest
    \/ ReceiveResponse
    \/ Locate
    \/ ExtractListing
    \/ ReturnHotels
    \/ MainNoHotels
    \/ MainCallSave
    \/ MainSkipSave
    \/ ScriptCallSave
    \/ WriteCsv

Spec == Init /\ [][Next]_vars

\* the run is sequential code: whatever step is next is taken
FairSpec == Spec /\ WF_vars(Next)

-----------------------------------------------------------------------------
(* extract_hotel_data on its own: one call on any listing of ExtractInputs *)

InitExtract ==
    /\ entry = "extract_hotel_data"
    /\ args_format = "csv"
    /\ args_output = None
    /\ pc = "extract_call"
    /\ gets = 0
    /\ response = Unset
    /\ soup = Unset
    /\ hotel_divs = <<>>
    /\ i = 0
    /\ hotel_div \in ExtractInputs
    /\ hotel = Unset
    /\ hotels = <<>>
    /\ saves = 0
    /\ filename = Unset
    /\ fault = Unset
    /\ fs = [n \in FileNames |-> NoFile]
    /\ csv_file = Unset
    /\ stdout = <<>>
    /\ log = <<>>
    /\ exit = "running"

\* the call of line 134
CallExtract ==
    /\ pc = "extract_call"
    /\ hotel' = extract_hotel_data(hotel_div)
    /\ log' = IF hotel' = None
              THEN Append(log, LogLine("warning", "Failed to extract hotel data"))
              ELSE log
    /\ pc' = "extract_ret"
    /\ UNCHANGED <<filename, entry, args_format, args_output, gets, response, soup,
                   hotel_divs, i, hotel_div, hotels, saves, fault, fs, csv_file,
                   stdout, exit>>

NextExtract == CallExtract

SpecExtract == InitExtract /\ [][NextExtract]_vars

-----------------------------------------------------------------------------
(* save_to_csv on its own: up to MaxSaves calls with the same records and   *)
(* file name, on a file system that may hold earlier content                *)

\* the records handed to save_to_csv: those of the sample listings, and one
\* whose texts hold a carriage return and a quote
SampleRecords ==
    { extract_hotel_data(e) : e \in {x \in SampleElems : IsListing(x) /\ ~x.raises} }
    \cup { [f \in FieldSet |-> <<"x", CR, QUOTE, "y">>] }

RecordLists == UNION {[1..n -> SampleRecords] : n \in 0..MaxRecords}

InitWriter ==
    /\ entry = "save_to_csv"
    /\ args_format = "csv"
    /\ args_output = None
    /\ pc = "save_call"
    /\ gets = 0
    /\ response = Unset
    /\ soup = Unset
    /\ hotel_divs = <<>>
    /\ i = 0
    /\ hotel_div = Unset
    /\ hotel = Unset
    /\ hotels \in RecordLists
    /\ saves = 0
    /\ filename \in {None, Str(<<"out", ".csv">>)}
    /\ fault = Unset
    /\ fs \in InitialFileSystems
    /\ csv_file = Unset
    /\ stdout = <<>>
    /\ log = <<>>
    /\ exit = "running"

\* one more call of save_to_csv(hotels, filename)
CallSave ==
    /\ pc = "save_call"
    /\ saves < MaxSaves
    /\ \E flt \in Faults(hotels) :
         LET res == save_to_csv(hotels, filename, fs, flt) IN
         /\ fault' = flt
         /\ fs' = res.fs
         /\ csv_file' = res.ret
         /\ log' = log \o res.log
         /\ exit' = IF res.raised THEN "raised" ELSE "returned"
    /\ saves' = saves + 1
    /\ UNCHANGED <<filename, entry, args_format, args_output, pc, gets, response, soup,
                   hotel_divs, i, hotel_div, hotel, hotels, stdout>>

NextWriter == CallSave

SpecWriter == InitWriter /\ [][NextWriter]_vars

-----------------------------------------------------------------------------
(* What the claims are stated with: a CSV reader (csv.reader's automaton    *)
(* for the default dialect) and the text a field is expected to hold        *)

\* one step of the reader in state q = [st, cell, row] on character c: the
\* state after it, and whether the record ends here
ReadStep(q, c) ==
    CASE q.st = "quoted" ->
           IF c = QUOTE THEN [q |-> [q EXCEPT !.st = "closed"], ends |-> FALSE]
           ELSE [q |-> [q EXCEPT !.cell = Append(q.cell, c)], ends |-> FALSE]
      [] c = QUOTE /\ q.st = "start" ->
           [q |-> [q EXCEPT !.st = "quoted"], ends |-> FALSE]
      [] c = QUOTE /\ q.st = "closed" ->
           [q |-> [q EXCEPT !.st = "quoted", !.cell = Append(q.cell, c)], ends |-> FALSE]
      [] c = COMMA ->
           [q |-> [st |-> "start", cell |-> <<>>, row |-> Append(q.row, q.cell)],
            ends |-> FALSE]
      [] c \in {CR, LF} ->
           [q |-> [q EXCEPT !.row = IF q.st = "start" /\ q.row = <<>> THEN <<>>
                                     ELSE Append(q.row, q.cell)],
            ends |-> TRUE]
      [] OTHER ->
           [q |-> [q EXCEPT !.st = "unquoted", !.cell = Append(q.cell, c)], ends |-> FALSE]

\* the record that starts at text[k]: its cells, and where the next one starts
\* (a line feed after a carriage return belongs to the same line break)
RECURSIVE ReadRecord(_, _, _)
ReadRecord(text, k, q) ==
    IF k > Len(text) THEN [cells |-> Append(q.row, q.cell), next |-> k]
    ELSE LET n == ReadStep(q, text[k]) IN
         IF n.ends
         THEN [cells |-> n.q.row,
               next |-> IF text[k] = CR /\ k < Len(text) /\ text[k + 1] = LF
                        THEN k + 2 ELSE k + 1]
         ELSE ReadRecord(text, k + 1, n.q)

RECURSIVE ReadRecords(_, _, _)
ReadRecords(text, k, rows) ==
    IF k > Len(text) THEN rows
    ELSE LET r == ReadRecord(text, k, [st |-> "start", cell |-> <<>>, row |-> <<>>]) IN
         ReadRecords(text, r.next, Append(rows, r.cells))

\* the rows a CSV reader finds in text, each a sequence of cells
ReadCsv(text) == ReadRecords(text, 1, <<>>)

\* text without the whitespace at its two ends
Trimmed(raw) ==
    LET inked == {k \in 1..Len(raw) : raw[k] \notin Whitespace} IN
    IF inked = {} THEN <<>>
    ELSE SubSeq(raw, CHOOSE a \in inked : \A b \in inked : a <= b,
                     CHOOSE a \in inked : \A b \in inked : a >= b)

\* the children of listing e that carry the marker of field f
Matches(e, f) ==
    {k \in 1..Len(e.children) :
        e.children[k].tag = Marker(f).tag /\ e.children[k].class = Marker(f).class}

\* what field f of the record of listing e is to hold: the sentinel when no
\* element carries the marker, the trimmed text of the first that does otherwise
ExpectedField(e, f) ==
    IF Matches(e, f) = {} THEN NA
    ELSE Trimmed(e.children[CHOOSE a \in Matches(e, f) : \A b \in Matches(e, f) : a <= b].text)

ExpectedRecord(e) == [f \in FieldSet |-> ExpectedField(e, f)]

Terminal == pc \in {"done", "failed"}

\* scrape_hotels has returned
Scraped == pc \in {"scraped", "writing", "done", "failed"}

\* the fields of listing e whose marker no element of e carries
MissingFields(e) == {f \in FieldSet : Matches(e, f) = {}}

\* the listings among the first n of hotel_divs whose lookups did not raise
Extractable(n) == {k \in 1..n : ~hotel_divs[k].raises}

-----------------------------------------------------------------------------
(* C1 *)

\* C1, as claimed: for every listing, extract_hotel_data returns a record with
\* all five fields, 'N/A' in each field whose marker is not found and the
\* trimmed text of the element found in every other.
C1_Original ==
    pc = "extract_ret" =>
        /\ hotel # None
        /\ DOMAIN hotel = FieldSet
        /\ \A f \in FieldSet : hotel[f] = ExpectedField(hotel_div, f)

\* C1, amended: the same for every listing whose lookups do not raise; when a
\* lookup raises, extract_hotel_data returns None.
C1_Amended ==
    pc = "extract_ret" =>
        IF hotel_div.raises THEN hotel = None
        ELSE /\ hotel # None
             /\ DOMAIN hotel = FieldSet
             /\ \A f \in FieldSet : hotel[f] = ExpectedField(hotel_div, f)

\* a record with a field at the sentinel beside a field whose text was trimmed
C1_Witness ==
    /\ pc = "extract_ret"
    /\ ~hotel_div.raises
    /\ hotel # None
    /\ \E f, g \in FieldSet :
         /\ Matches(hotel_div, f) = {}
         /\ hotel[f] = NA
         /\ Matches(hotel_div, g) # {}
         /\ \E k \in Matches(hotel_div, g) :
              /\ hotel_div.children[k].text = TextPadded
              /\ hotel[g] = <<"b", COMMA, QUOTE, LF, "c">>

-----------------------------------------------------------------------------
(* C2 *)

\* C2, as claimed: a listing with a field marker not found gives no record,
\* and scrape_hotels emits none for it.
C2_Original ==
    (pc \in {"extracting", "scraped"} /\ hotel_div # Unset) =>
        /\ MissingFields(hotel_div) # {} => hotel = None
        /\ Len(hotels) = Cardinality({k \in Extractable(i - 1) :
                                         MissingFields(hotel_divs[k]) = {}})

\* C2, amended: a listing with a field marker not found, and no lookup
\* raising, gives a record with the sentinel in that field only, and
\* scrape_hotels emits it; only a listing whose lookup raises gives none.
C2_Amended ==
    (pc \in {"extracting", "scraped"} /\ hotel_div # Unset) =>
        /\ Len(hotels) = Cardinality(Extractable(i - 1))
        /\ IF hotel_div.raises THEN hotel = None
           ELSE /\ hotel # None
                /\ \A f \in MissingFields(hotel_div) : hotel[f] = NA
                /\ \A f \in FieldSet \ MissingFields(hotel_div) :
                     hotel[f] = ExpectedField(hotel_div, f)
                /\ hotels # <<>>
                /\ hotels[Len(hotels)] = hotel

\* the listing without a review count has given a record, the last of hotels
C2_Witness ==
    /\ pc = "extracting"
    /\ hotel_div # Unset
    /\ ~hotel_div.raises
    /\ MissingFields(hotel_div) = {"review_count"}
    /\ hotel # None
    /\ hotel["review_count"] = NA
    /\ hotel["name"] = TextPlain
    /\ hotels[Len(hotels)] = hotel

-----------------------------------------------------------------------------
(* C3 *)

\* C3, as claimed: through either entry point, a scrape that yields no record
\* is followed by no save_to_csv call, and no output file is opened or written.
C3_NoSaveWithoutRecords ==
    (Scraped /\ hotels = <<>>) => (saves = 0 /\ fault = Unset)

-----------------------------------------------------------------------------
(* C4 *)

FetchFailed == response.kind # "response" \/ response.status # 200

\* C4: a transport error, a timeout or a status other than 200 makes
\* fetch_page return None without raising, and scrape_hotels then returns an
\* empty list without locating or extracting; a tree is returned only for a 200.
C4_FetchFailureIsEmpty ==
    response # Unset =>
        /\ soup # None => (response.kind = "response" /\ response.status = 200)
        /\ FetchFailed =>
             /\ soup = None
             /\ Scraped
             /\ hotels = <<>>
             /\ hotel_divs = <<>> /\ i = 0 /\ hotel_div = Unset /\ hotel = Unset
             /\ (exit = "raised" => (fault # Unset /\ fault.kind # "none"))

\* a 404, and scrape_hotels has returned the empty list
C4_Witness ==
    /\ response # Unset
    /\ response.kind = "response"
    /\ response.status = 404
    /\ soup = None
    /\ pc = "scraped"
    /\ hotels = <<>>

-----------------------------------------------------------------------------
(* C5 *)

\* the listings of the document that give a record, in document order
Producing(doc) == SelectSeq(doc, LAMBDA e : IsListing(e) /\ ~e.raises)

\* C5: after a save, the file read back holds the header row and then, for
\* each k, the record of the k-th listing of the document that gave a record.
C5_RowOrder ==
    (pc = "done" /\ saves = 1 /\ soup # None) =>
        LET rows == ReadCsv(fs[TargetFile].text)
            from == Producing(soup.tree)
        IN  /\ Len(rows) = 1 + Len(from)
            /\ rows[1] = HeaderCells
            /\ \A k \in 1..Len(from) :
                 rows[k + 1] = [j \in 1..Len(Fields) |-> ExpectedField(from[k], Fields[j])]

\* a file written from a document of two listings that gave records with
\* different names, the second of which needs quoting
C5_Witness ==
    /\ pc = "done"
    /\ saves = 1
    /\ soup # None
    /\ Len(soup.tree) = 2
    /\ Len(hotels) = 2
    /\ hotels[1]["name"] = TextPlain
    /\ hotels[2]["name"] = <<"b", COMMA, QUOTE, LF, "c">>
    /\ Len(ReadCsv(fs[TargetFile].text)) = 3
    /\ ReadCsv(fs[TargetFile].text)[3][1] = <<"b", COMMA, QUOTE, LF, "c">>

-----------------------------------------------------------------------------
(* C7 *)

\* an error line is in the log
ErrorLogged == \E k \in 1..Len(log) : log[k].level = "error"

SummaryPrinted == \E k \in 1..Len(stdout) : stdout[k].text = "Successfully scraped"

\* C7, as claimed: with --format json and records scraped, main() ends in
\* failure with an error emitted and does not print the success summary.
C7_JsonIsFatal ==
    (entry = "main" /\ args_format = "json" /\ hotels # <<>> /\ Terminal) =>
        (exit = "raised" /\ ErrorLogged /\ ~SummaryPrinted)

-----------------------------------------------------------------------------
(* C8 *)

Logged(msg) == \E k \in 1..Len(log) : log[k] = LogLine("error", msg)

\* C8: a save_to_csv call whose open or write fails logs the failure and
\* raises; main() logs it again and raises; the run ends in failure and
\* neither line of lines 209 and 212 is printed.
C8_SaveFailurePropagates ==
    (fault # Unset /\ fault.kind # "none") =>
        /\ pc = "failed"
        /\ exit = "raised"
        /\ Logged("Failed to save CSV")
        /\ entry = "main" => log[Len(log)] = LogLine("error", "Scraping failed")
        /\ stdout = <<>>
        /\ csv_file = Unset

\* main()'s save_to_csv call could not open the file
C8_Witness ==
    /\ entry = "main"
    /\ fault # Unset
    /\ fault.kind = "open"
    /\ exit = "raised"
    /\ Logged("Scraping failed")

-----------------------------------------------------------------------------
(* C10 *)

\* C10: a listing whose extraction fails does not end the run: when
\* scrape_hotels returns, every listing was processed and hotels holds exactly
\* the records of the listings whose extraction succeeded, in order.
C10_FailureSkipsOneListing ==
    /\ (pc = "extracting" /\ hotel = None) => exit = "running"
    /\ (Scraped /\ soup # None) =>
         LET ok == SelectSeq(hotel_divs, LAMBDA e : ~e.raises)
             failed == {k \in 1..Len(hotel_divs) : hotel_divs[k].raises}
         IN  /\ i = Len(hotel_divs) + 1
             /\ Len(hotels) = Len(hotel_divs) - Cardinality(failed)
             /\ hotels = [k \in 1..Len(ok) |-> ExpectedRecord(ok[k])]

\* scrape_hotels returned the record of the listing after a failed one
C10_Witness ==
    /\ pc = "scraped"
    /\ soup # None
    /\ Len(hotel_divs) = 2
    /\ hotel_divs[1].raises
    /\ ~hotel_divs[2].raises
    /\ Len(hotels) = 1
    /\ hotels[1] = ExpectedRecord(hotel_divs[2])

-----------------------------------------------------------------------------
(* C6 *)

\* C6: after one or more save_to_csv calls with the same records and file
\* name, the last of which succeeded, the file read back holds exactly the
\* header row and one row per record, whatever it held before.
C6_OverwriteIdempotent ==
    (pc = "save_call" /\ saves >= 1 /\ fault.kind = "none") =>
        ReadCsv(fs[TargetFile].text)
            = <<HeaderCells>>
              \o [k \in 1..Len(hotels) |-> [j \in 1..Len(Fields) |-> hotels[k][Fields[j]]]]

\* two records were saved twice
C6_Witness ==
    /\ pc = "save_call"
    /\ saves = 2
    /\ fault.kind = "none"
    /\ Len(hotels) = 2
    /\ Len(ReadCsv(fs[TargetFile].text)) = 3
    /\ ReadCsv(fs[TargetFile].text)[3][1] = <<"b", COMMA, QUOTE, LF, "c">>

-----------------------------------------------------------------------------
(* C9 *)

\* the stages of the run, in the order of the code
StageRank(p) ==
    CASE p = "idle"       -> 0
      [] p = "fetching"   -> 1
      [] p = "locating"   -> 2
      [] p = "extracting" -> 3
      [] p = "scraped"    -> 4
      [] p = "writing"    -> 5
      [] p = "done"       -> 6
      [] p = "failed"     -> 6

\* C9: every step moves to a later stage, or is one more pass of the
\* extraction loop over the listings, so that no stage is entered twice; one
\* GET is issued and no more; every run reaches done or failed.
C9_LinearPipeline ==
    /\ [][\/ StageRank(pc') > StageRank(pc)
          \/ /\ pc' = pc /\ pc = "extracting"
             /\ i' = i + 1 /\ i' <= Len(hotel_divs) + 1
             /\ hotel_divs' = hotel_divs]_vars
    /\ [](gets <= 1)
    /\ [](Terminal => gets = 1)
    /\ <>Terminal

\* a run that went through every stage and wrote two records
C9_Witness ==
    /\ pc = "done"
    /\ gets = 1
    /\ saves = 1
    /\ Len(hotels) = 2
    /\ fault.kind = "none"

=============================================================================
